---- MODULE Spec2Model ----
(***************************************************************************)
(* Model of src/time_vktrbr/worktime.py: the working-time calculator       *)
(* worktime(start, end, schedule) and the schedule normalizer              *)
(* convert_data / convert_raw.                                             *)
(*                                                                         *)
(* Timestamps are whole seconds since midnight of day 0.  A ScheduleDay is *)
(* a record [typ, start, end, is_work]; typ distinguishes a ScheduleDay    *)
(* from a plain tuple, which is what the isinstance assertion looks at.    *)
(***************************************************************************)
EXTENDS Integers, Sequences, FiniteSets, TLC

\* ------------------------------------------------------------------ bounds
\* clock resolution of the timestamps drawn as inputs, and rows per table
TicksPerDay == 3
MaxRows == 1

SecondsPerDay == 86400

\* a three-day calendar
Days == 0..2
ClockTimes == {k * (SecondsPerDay \div TicksPerDay) : k \in 0..(TicksPerDay - 1)}
Timestamp(day, time) == day * SecondsPerDay + time
Timestamps == {Timestamp(d, c) : d \in Days, c \in ClockTimes}

\* pd.Timestamp.date(): the calendar date of a timestamp
DateOf(t) == t \div SecondsPerDay

\* ------------------------------------------------------------ ScheduleDay
ScheduleDay(start, end, is_work) ==
    [typ |-> "ScheduleDay", start |-> start, end |-> end, is_work |-> is_work]

\* a plain 3-tuple put in the list instead of a ScheduleDay: it has the same
\* three items but no attributes start / end / is_work
PlainTuple(start, end, is_work) ==
    [typ |-> "tuple", start |-> start, end |-> end, is_work |-> is_work]

\* --------------------------------------------------------------- worktime
\* how a call ends: the value returned or the exception raised, the caller's
\* list object as the call leaves it, and the call's local list "schedule"
Return(value, list, local) ==
    [kind |-> "returned", value |-> value, error |-> "none",
     schedule |-> list, local |-> local]

Raise(error, list, local) ==
    [kind |-> "error", value |-> 0, error |-> error,
     schedule |-> list, local |-> local]

NoOutcome ==
    [kind |-> "pending", value |-> 0, error |-> "none",
     schedule |-> <<>>, local |-> <<>>]

\* list.sort(key=lambda x: x.start) is stable: x goes after every element
\* whose key is <= its own
RECURSIVE Insert(_, _)
Insert(x, s) ==
    IF s = <<>> THEN <<x>>
    ELSE IF s[Len(s)].start <= x.start THEN Append(s, x)
    ELSE Append(Insert(x, SubSeq(s, 1, Len(s) - 1)), s[Len(s)])

RECURSIVE SortByStart(_)
SortByStart(s) ==
    IF s = <<>> THEN <<>>
    ELSE Insert(s[Len(s)], SortByStart(SubSeq(s, 1, Len(s) - 1)))

Overlaps(start, end, x) == x.start <= end /\ start <= x.end

FilterOverlap(start, end, s) == SelectSeq(s, LAMBDA x : Overlaps(start, end, x))

\* list.remove(x): drops the first element equal to x
RECURSIVE Remove(_, _)
Remove(s, x) ==
    IF s = <<>> THEN <<>>
    ELSE IF Head(s) = x THEN Tail(s)
    ELSE <<Head(s)>> \o Remove(Tail(s), x)

\* SingleWindow without the test of the two calendar dates
SingleWindowAnyDate(start, end, day) == day.end - start

\* exactly one window is left: lines 51-57
SingleWindow(start, end, day) ==
    IF DateOf(start) = DateOf(end) THEN end - start ELSE day.end - start

\* LoopStep without schedule.remove(day)
LoopStepNoRemove(day, acc) ==
    [total_time |-> IF day.is_work THEN acc.total_time + (day.end - day.start)
                    ELSE acc.total_time,
     schedule |-> acc.schedule]

\* one pass of the body of "for day in schedule[1:-1]"
LoopStep(day, acc) ==
    [total_time |-> IF day.is_work THEN acc.total_time + (day.end - day.start)
                    ELSE acc.total_time,
     schedule |-> Remove(acc.schedule, day)]

\* the loop runs over the slice schedule[1:-1], a copy made before the loop
RECURSIVE InteriorLoop(_, _, _)
InteriorLoop(slice, i, acc) ==
    IF i > Len(slice) THEN acc
    ELSE InteriorLoop(slice, i + 1, LoopStep(slice[i], acc))

InteriorDays(kept) ==
    IF Len(kept) > 2
    THEN InteriorLoop(SubSeq(kept, 2, Len(kept) - 1), 1,
                      [total_time |-> 0, schedule |-> kept])
    ELSE [total_time |-> 0, schedule |-> kept]

FirstDay(start, acc) ==
    IF acc.schedule[1].is_work
    THEN acc.total_time + (acc.schedule[1].end - start)
    ELSE acc.total_time

LastDay(end, total_time, acc) ==
    IF acc.schedule[2].is_work
    THEN total_time + (end - acc.schedule[2].start)
    ELSE total_time

worktime(start, end, schedule) ==
    IF schedule = <<>> THEN Raise("IndexError", schedule, schedule)
    ELSE IF schedule[1].typ # "ScheduleDay"
         THEN Raise("AssertionError", schedule, schedule)
    ELSE IF ~(start <= end) THEN Raise("AssertionError", schedule, schedule)
    ELSE IF \E i \in 1..Len(schedule) : schedule[i].typ # "ScheduleDay"
         THEN Raise("AttributeError", schedule, schedule)
    ELSE LET sorted == SortByStart(schedule)
             kept == FilterOverlap(start, end, sorted)
         IN  IF Len(kept) = 1
             THEN Return(SingleWindow(start, end, kept[1]), sorted, kept)
             ELSE LET acc == InteriorDays(kept)
                  IN  IF Len(acc.schedule) < 2
                      THEN Raise("IndexError", sorted, acc.schedule)
                      ELSE Return(LastDay(end, FirstDay(start, acc), acc),
                                  sorted, acc.schedule)

\* ------------------------------------------------------------------ state
\* pc: where the caller is; start, end, schedule: the arguments (schedule is
\* the caller's list object); before: that list as it was when the call was
\* made; outcome: how the worktime call ended; data: the raw table;
\* converted: the list convert_data returned
VARIABLES pc, start, end, schedule, before, outcome, data, converted

vars == <<pc, start, end, schedule, before, outcome, data, converted>>

\* windows of one calendar date: a working window start <= end inside the
\* date, or a day off with start = end = midnight of the date
WorkWindows ==
    {ScheduleDay(Timestamp(d, s), Timestamp(d, e), TRUE) :
        d \in Days, s \in ClockTimes, e \in ClockTimes}

DayWindows ==
    {w \in WorkWindows : w.start <= w.end}
    \cup {ScheduleDay(Timestamp(d, 0), Timestamp(d, 0), FALSE) : d \in Days}

OneDatePerWindow(s) ==
    \A i, j \in 1..Len(s) : i # j => DateOf(s[i].start) # DateOf(s[j].start)

\* at most one window per calendar date
Lengths == 1..Cardinality(Days)

ValidSchedules ==
    UNION {{s \in [1..n -> DayWindows] : OneDatePerWindow(s)} : n \in Lengths}

Init ==
    /\ pc = "idle"
    /\ schedule \in ValidSchedules
    /\ before = schedule
    /\ start \in Timestamps
    /\ end \in {t \in Timestamps : start <= t}
    /\ outcome = NoOutcome
    /\ data = <<>>
    /\ converted = <<>>

\* the caller calls worktime(start, end, schedule); schedule is the caller's
\* list object, which the call sorts in place
WorktimeCall ==
    /\ pc = "idle"
    /\ pc' = "done"
    /\ outcome' = worktime(start, end, schedule)
    /\ schedule' = outcome'.schedule
    /\ UNCHANGED <<start, end, before, data, converted>>

Next == WorktimeCall

Spec == Init /\ [][Next]_vars

\* ------------------------------------------------------------ convert_data
NA == "NaN"

start_time_default == "09:00:00"
end_time_default == "18:00:00"

\* pd.Timestamp of a time-of-day string: seconds since midnight
ParseTime(s) ==
    CASE s = "00:00:00" -> 0
      [] s = "00:00" -> 0
      [] s = "09:00:00" -> 32400
      [] s = "10:00:00" -> 36000
      [] s = "14:00:00" -> 50400
      [] s = "18:00:00" -> 64800
      [] s = "20:00:00" -> 72000

\* pd.Timestamp(x) == pd.Timestamp('00:00:00')
IsMidnight(s) == ParseTime(s) = ParseTime("00:00:00")

\* raw.fillna(v): only the two time columns can hold a gap
Fillna(raw, v) ==
    [raw EXCEPT !.start_time = IF @ = NA THEN v ELSE @,
                !.end_time = IF @ = NA THEN v ELSE @]

StartMissing(raw) ==
    IF IsMidnight(raw.end_time) THEN Fillna(raw, "00:00:00")
    ELSE [raw EXCEPT !.start_time = start_time_default, !.is_work = TRUE]

EndMissing(raw) ==
    IF IsMidnight(raw.start_time) THEN Fillna(raw, "00:00:00")
    ELSE [raw EXCEPT !.end_time = end_time_default, !.is_work = TRUE]

\* BothGiven with "and" for "or"
BothGivenBothNonMidnight(raw) ==
    IF ~IsMidnight(raw.start_time) /\ ~IsMidnight(raw.end_time)
    THEN [raw EXCEPT !.is_work = TRUE]
    ELSE raw

\* both times given: a day off is a working day unless both are midnight
BothGiven(raw) ==
    IF ~IsMidnight(raw.start_time) \/ ~IsMidnight(raw.end_time)
    THEN [raw EXCEPT !.is_work = TRUE]
    ELSE raw

DayOff(raw) ==
    IF raw.start_time = NA /\ raw.end_time = NA THEN Fillna(raw, "00:00:00")
    ELSE IF raw.start_time = NA /\ raw.end_time # NA THEN StartMissing(raw)
    ELSE IF raw.end_time = NA /\ raw.start_time # NA THEN EndMissing(raw)
    ELSE BothGiven(raw)

WorkDay(raw) ==
    [raw EXCEPT !.start_time = IF @ = NA THEN start_time_default ELSE @,
                !.end_time = IF @ = NA THEN end_time_default ELSE @]

convert_raw(raw) ==
    LET filled == IF ~raw.is_work THEN DayOff(raw) ELSE WorkDay(raw)
    IN  ScheduleDay(Timestamp(filled.day, ParseTime(filled.start_time)),
                    Timestamp(filled.day, ParseTime(filled.end_time)),
                    filled.is_work)

convert_data(table) == [i \in 1..Len(table) |-> convert_raw(table[i])]

\* the time strings found in the tables, besides a gap
TimeStrings == {"00:00:00", "00:00", "10:00:00", "14:00:00", "20:00:00"}

\* rows of a table: a date, a working flag, and times that are missing or
\* given; when both are given the start is not later than the end
Rows ==
    {r \in [day : Days, start_time : TimeStrings \cup {NA},
            end_time : TimeStrings \cup {NA}, is_work : BOOLEAN] :
        (r.start_time # NA /\ r.end_time # NA)
            => ParseTime(r.start_time) <= ParseTime(r.end_time)}

Tables == UNION {[1..n -> Rows] : n \in 1..MaxRows}

InitNorm ==
    /\ pc = "idle"
    /\ data \in Tables
    /\ converted = <<>>
    /\ schedule = <<>>
    /\ before = <<>>
    /\ start = 0
    /\ end = 0
    /\ outcome = NoOutcome

ConvertDataCall ==
    /\ pc = "idle"
    /\ pc' = "done"
    /\ converted' = convert_data(data)
    /\ UNCHANGED <<start, end, schedule, before, outcome, data>>

NextNorm == ConvertDataCall

SpecNorm == InitNorm /\ [][NextNorm]_vars

\* ------------------------------------------ worktime on unchecked arguments
\* elements a caller can put in the list: day windows, ScheduleDays whose
\* start is after their end, and plain tuples
BadWindows == {w \in WorkWindows : w.start > w.end}

Elements ==
    DayWindows \cup BadWindows \cup {PlainTuple(w.start, w.end, w.is_work) : w \in
        {ScheduleDay(Timestamp(d, 0), Timestamp(d, 0), FALSE) : d \in Days}}

AnySchedules ==
    {<<>>} \cup {<<x>> : x \in Elements}
    \cup {s \in {<<x, y>> : x \in Elements, y \in Elements} : OneDatePerWindow(s)}

InitAny ==
    /\ pc = "idle"
    /\ schedule \in AnySchedules
    /\ before = schedule
    /\ start \in Timestamps
    /\ end \in Timestamps
    /\ outcome = NoOutcome
    /\ data = <<>>
    /\ converted = <<>>

NextAny == WorktimeCall

SpecAny == InitAny /\ [][NextAny]_vars

\* ----------------------------------------------------------------- claims
Done == pc = "done"
Returned == Done /\ outcome.kind = "returned"

Min(a, b) == IF a <= b THEN a ELSE b
Max(a, b) == IF a >= b THEN a ELSE b

RECURSIVE SumSeq(_)
SumSeq(q) == IF q = <<>> THEN 0 ELSE Head(q) + SumSeq(Tail(q))

\* the part of [from, to] a window covers, nothing for a day off
Covered(from, to, w) ==
    IF w.is_work THEN Max(0, Min(to, w.end) - Max(from, w.start)) ELSE 0

TotalOverlap(from, to, s) ==
    SumSeq([i \in 1..Len(s) |-> Covered(from, to, s[i])])

\* the windows of the list given that overlap [start, end]
Overlapping == {before[i] : i \in {j \in 1..Len(before) : Overlaps(start, end, before[j])}}
FirstOverlapping == CHOOSE w \in Overlapping : \A v \in Overlapping : w.start <= v.start
LastOverlapping == CHOOSE w \in Overlapping : \A v \in Overlapping : v.start <= w.start
Interior == Overlapping \ {FirstOverlapping, LastOverlapping}

\* C1: for a valid schedule and start <= end, worktime returns the total
\* overlap of [start, end] with the working windows; days off add nothing.
C1_TotalOverlap ==
    Done => /\ outcome.kind = "returned"
            /\ outcome.value = TotalOverlap(start, end, before)

\* C2: for a valid schedule and start <= end, the duration worktime returns
\* is at least 0 and at most end - start.
C2_WithinSpan ==
    Returned => (0 <= outcome.value /\ outcome.value <= end - start)

\* C3: if every window overlapping [start, end] is a day off (also when no
\* window overlaps at all), worktime returns 0.
C3_ZeroCoverage ==
    (Done /\ \A w \in Overlapping : ~w.is_work)
        => (outcome.kind = "returned" /\ outcome.value = 0)

\* C4: if some working window of the schedule contains [start, end],
\* worktime returns end - start, whatever the other windows are.
C4_FullCoverage ==
    (Done /\ \E i \in 1..Len(before) :
                /\ before[i].is_work
                /\ before[i].start <= start
                /\ end <= before[i].end)
        => (outcome.kind = "returned" /\ outcome.value = end - start)

C4_Witness ==
    /\ Returned
    /\ Len(before) = 3
    /\ start < end
    /\ outcome.value = end - start
    /\ \E i \in 1..Len(before) :
          /\ before[i].is_work
          /\ before[i].start <= start
          /\ end <= before[i].end

\* C5: splitting [start, end] at a point m that is no window's start or end,
\* the durations of the two halves add up to the duration of the whole.
C5_Additive ==
    Returned =>
        \A m \in Timestamps :
            (/\ start <= m
             /\ m <= end
             /\ \A i \in 1..Len(before) : m # before[i].start /\ m # before[i].end)
            => LET left == worktime(start, m, schedule)
                   right == worktime(m, end, schedule)
               IN  (left.kind = "returned" /\ right.kind = "returned")
                       => left.value + right.value = outcome.value

\* C6: a call of worktime leaves the caller's list as it was: the same
\* windows in the same order.
C6_ScheduleUnchanged == Done => schedule = before

\* a valid day window: a ScheduleDay whose start is not after its end
ValidElement(x) == x.typ = "ScheduleDay" /\ x.start <= x.end

\* C7: worktime ends in an error, with the list untouched, whenever the list
\* is empty, or start > end, or some element at any position is no valid day
\* window (not a ScheduleDay, or one with start > end).

C7_FailFast ==
    (Done /\ (\/ before = <<>>
              \/ start > end
              \/ \E i \in 1..Len(before) : ~ValidElement(before[i])))
        => (outcome.kind = "error" /\ schedule = before)

\* a time that is given and is not midnight
GivenNonMidnight(x) == x # NA /\ ParseTime(x) # 0

\* C8: the window made from a row is a working one exactly when the row is
\* flagged working or one of its given times differs from midnight.

C9_StartBeforeEnd ==
    Done => \A i \in 1..Len(converted) : converted[i].start <= converted[i].end

====
